---- MODULE Spec2Model ----
(***************************************************************************)
(* SVGSkin (src/src/SVGSkin.js): the GPU texture of one vector skin, the   *)
(* power-of-two resolution it is rasterized at, and the rotation center.   *)
(* Rasterization (SvgRenderer._draw) is asynchronous: a call queues a task *)
(* and its completion callback runs later, in any order.                   *)
(***************************************************************************)
EXTENDS Integers, Sequences, FiniteSets, TLC

VARIABLES
    _texture,            \* this._texture: 0 is null, otherwise a GL texture name
    _textureScale,       \* this._textureScale
    _maxTextureScale,    \* this._maxTextureScale
    size,                \* this.size
    _viewOffset,         \* this._viewOffset
    _rawRotationCenter,  \* this._rawRotationCenter
    _rotationCenter,     \* the base Skin's rotation center
    _silhouette,         \* bitmap last given to this._silhouette.update
    _svgRenderer,        \* source currently loaded in this._svgRenderer
    gl,                  \* GL textures created so far: name -> [alive, data]
    pending,             \* _draw tasks whose callback has not run yet
    disposed,            \* dispose() has run
    events,              \* number of WasAltered events emitted
    loads,               \* number of setSVG calls made
    requestedCenter,     \* rotationCenter argument of the latest setSVG that returned
    last                 \* the operation that produced this state

vars == <<_texture, _textureScale, _maxTextureScale, size, _viewOffset,
          _rawRotationCenter, _rotationCenter, _silhouette, _svgRenderer,
          gl, pending, disposed, events, loads, requestedCenter, last>>

---------------------------------------------------------------------------
(* Bounds of the model *)

MaxLoads == 3

MaxPending == 3

MaxIter == 12

---------------------------------------------------------------------------
(* Constants of the program *)

MAX_TEXTURE_DIMENSION == 2048

\* Number.NaN, the "unresolved" rotation center; no coordinate of the model
\* takes this value.
NaN == -9999

\* rotationCenter argument left out (typeof rotationCenter === 'undefined')
Undefined == <<>>

\* getTexture called without a scale
NoScale == <<>>

NoSrc == "none"

NoBitmap == [src |-> NoSrc, scale |-> 0]

---------------------------------------------------------------------------
(* The inputs the callers choose from *)

\* SVG sources. "bad" is malformed: loadString throws on it.
ValidSources == {"A", "B", "C"}

Sources == ValidSources \cup {"bad"}

\* SvgRenderer.size of a loaded source
SvgSize(s) ==
    CASE s = "A" -> <<300, 200>>
      [] s = "B" -> <<600, 1024>>
      [] s = "C" -> <<1026, 2>>
      [] OTHER   -> <<0, 0>>

\* SvgRenderer.viewOffset of a loaded source
SvgViewOffset(s) ==
    CASE s = "A" -> <<0, 0>>
      [] s = "B" -> <<4, 6>>
      [] s = "C" -> <<-2, 0>>
      [] OTHER   -> <<0, 0>>

\* canvas.width and canvas.height of a finished rasterization
CanvasWidth(b) == SvgSize(b.src)[1] * b.scale

CanvasHeight(b) == SvgSize(b.src)[2] * b.scale

RotationCenters == {Undefined, <<10, 20>>}

\* arguments of setRotationCenter
Centers == {<<10, 20>>, <<30, 20>>}

\* arguments of getTexture
Scales == {NoScale, <<50, 50>>, <<149, -149>>, <<150, 20>>, <<-299, 10>>,
           <<20, 300>>}

---------------------------------------------------------------------------
(* Arithmetic of JavaScript numbers, with NaN *)

Abs(n) == IF n < 0 THEN -n ELSE n

Max(a, b) == IF a >= b THEN a ELSE b

Min(a, b) == IF a <= b THEN a ELSE b

\* a - b
Sub(a, b) == IF a = NaN \/ b = NaN THEN NaN ELSE a - b

\* a !== b
StrictNotEqual(a, b) == a = NaN \/ b = NaN \/ a # b

---------------------------------------------------------------------------
(* State after the constructor *)

\* What the last step was: the method or callback, its arguments, and
\* _textureScale when it started. ok is FALSE when the method threw; noop is
\* TRUE when setRotationCenter found the center unchanged; repeat is TRUE when
\* setRotationCenter directly follows a setRotationCenter with the same
\* arguments; ret is the texture getTexture returned.
NoOp == [op |-> "new", x |-> 0, y |-> 0,
         scaleMax |-> 0, taskScale |-> 0, preScale |-> 0, ok |-> TRUE,
         noop |-> FALSE, repeat |-> FALSE, ret |-> 0]

Init ==
    /\ _texture = 0
    /\ _textureScale = 1
    /\ _maxTextureScale = 0
    /\ size = <<0, 0>>
    /\ _viewOffset = <<0, 0>>
    /\ _rawRotationCenter = <<NaN, NaN>>
    /\ _rotationCenter = <<0, 0>>
    /\ _silhouette = NoBitmap
    /\ _svgRenderer = NoSrc
    /\ gl = <<>>
    /\ pending = <<>>
    /\ disposed = FALSE
    /\ events = 0
    /\ loads = 0
    /\ requestedCenter = Undefined
    /\ last = NoOp

---------------------------------------------------------------------------
(* Pure parts of the methods *)

\* Skin.setRotationCenter(x, y): the base skin stores the center it is given.
SkinSetRotationCenter(x, y) == <<x, y>>

\* Skin.calculateRotationCenter(): the center of the bounding box.
calculateRotationCenter(sz) == <<sz[1] \div 2, sz[2] \div 2>>

\* Variant of setRotationCenter that hands (x, y) to the base skin without
\* subtracting _viewOffset.
setRotationCenterNoOffset(x, y, raw, voff, base) ==
    IF StrictNotEqual(x, raw[1]) \/ StrictNotEqual(y, raw[2])
    THEN [raw  |-> <<x, y>>,
          base |-> SkinSetRotationCenter(x, y),
          applied |-> TRUE]
    ELSE [raw |-> raw, base |-> base, applied |-> FALSE]

\* Variant of setRotationCenter without the comparison with
\* _rawRotationCenter.
setRotationCenterAlways(x, y, raw, voff, base) ==
    [raw  |-> <<x, y>>,
     base |-> SkinSetRotationCenter(Sub(x, voff[1]), Sub(y, voff[2])),
     applied |-> TRUE]

\* SVGSkin.setRotationCenter(x, y) as a function of the three fields it reads;
\* the result is the new _rawRotationCenter and the new base rotation center.
setRotationCenterResult(x, y, raw, voff, base) ==
    IF StrictNotEqual(x, raw[1]) \/ StrictNotEqual(y, raw[2])
    THEN [raw  |-> <<x, y>>,
          base |-> SkinSetRotationCenter(Sub(x, voff[1]), Sub(y, voff[2])),
          applied |-> TRUE]
    ELSE [raw |-> raw, base |-> base, applied |-> FALSE]

\* getTexture: scaleMax, the larger of the two axes, in percent
scaleMaxOf(scale) ==
    IF scale = NoScale THEN 100 ELSE Max(Abs(scale[1]), Abs(scale[2]))

\* getTexture: requestedScale = Math.min(scaleMax / 100, maxScale), kept in
\* hundredths so that it stays an integer
requestedScale100(scaleMax, maxScale) == Min(scaleMax, 100 * maxScale)

\* Variant of the doubling loop without the newScale < maxScale test.
RECURSIVE newScaleLoopUncapped(_, _, _)
newScaleLoopUncapped(newScale, maxScale, requested100) ==
    IF requested100 >= 150 * newScale
    THEN newScaleLoopUncapped(newScale * 2, maxScale, requested100)
    ELSE newScale

\* Variant of the doubling loop that upgrades from 1.25 times the current
\* scale on.
RECURSIVE newScaleLoopEager(_, _, _)
newScaleLoopEager(newScale, maxScale, requested100) ==
    IF (newScale < maxScale) /\ (requested100 >= 125 * newScale)
    THEN newScaleLoopEager(newScale * 2, maxScale, requested100)
    ELSE newScale

\* Variant of the doubling loop with > in place of >=.
RECURSIVE newScaleLoopStrict(_, _, _)
newScaleLoopStrict(newScale, maxScale, requested100) ==
    IF (newScale < maxScale) /\ (requested100 > 150 * newScale)
    THEN newScaleLoopStrict(newScale * 2, maxScale, requested100)
    ELSE newScale

\* Variant of the doubling loop that steps by adding 2.
RECURSIVE newScaleLoopAdd(_, _, _)
newScaleLoopAdd(newScale, maxScale, requested100) ==
    IF (newScale < maxScale) /\ (requested100 >= 150 * newScale)
    THEN newScaleLoopAdd(newScale + 2, maxScale, requested100)
    ELSE newScale

\* getTexture: the while loop that doubles newScale
RECURSIVE newScaleLoop(_, _, _)
newScaleLoop(newScale, maxScale, requested100) ==
    IF (newScale < maxScale) /\ (requested100 >= 150 * newScale)
    THEN newScaleLoop(newScale * 2, maxScale, requested100)
    ELSE newScale

\* Variant of getTexture that ignores _maxTextureScale, both in requestedScale
\* and in the loop.
getTextureNewScaleUncapped(scale, curScale, maxScale) ==
    newScaleLoopUncapped(curScale, maxScale, scaleMaxOf(scale))

\* Variant of getTexture that starts the search at scale 1.
getTextureNewScaleFromOne(scale, curScale, maxScale) ==
    newScaleLoop(1, maxScale,
                 requestedScale100(scaleMaxOf(scale), maxScale))

getTextureNewScale(scale, curScale, maxScale) ==
    newScaleLoop(curScale, maxScale,
                 requestedScale100(scaleMaxOf(scale), maxScale))

\* Variant of the testScale loop with < in place of <=.
RECURSIVE testScaleLoopStrict(_, _, _, _)
testScaleLoopStrict(maxDimension, testScale, maxScale, iters) ==
    IF maxDimension * testScale < MAX_TEXTURE_DIMENSION /\ iters < MaxIter
    THEN testScaleLoopStrict(maxDimension, testScale * 2, testScale, iters + 1)
    ELSE [maxScale |-> maxScale, iters |-> iters]

\* setSVG callback: the for loop over testScale. The result is the value left
\* in _maxTextureScale and the number of times the body ran; the loop is cut
\* off after MaxIter iterations.
RECURSIVE testScaleLoop(_, _, _, _)
testScaleLoop(maxDimension, testScale, maxScale, iters) ==
    IF maxDimension * testScale <= MAX_TEXTURE_DIMENSION /\ iters < MaxIter
    THEN testScaleLoop(maxDimension, testScale * 2, testScale, iters + 1)
    ELSE [maxScale |-> maxScale, iters |-> iters]

maxTextureScaleOf(bitmap) ==
    testScaleLoop(Max(CanvasWidth(bitmap), CanvasHeight(bitmap)), 2, 1, 0)

\* Variant of the callback's test that accepts every completion.
upgradeAlwaysCurrent(curScale, newScale) == TRUE

\* getTexture callback: if (this._textureScale === newScale)
upgradeIsCurrent(curScale, newScale) == curScale = newScale

\* Variant of the callback's texture test that never finds a texture.
hasTextureNever(tex) == FALSE

\* setSVG callback: if (this._texture)
hasTexture(tex) == tex # 0

\* Variant of emit that notifies nobody.
emitDropped(count) == count

\* this.emit(Skin.Events.WasAltered): one more event has been emitted
emit(count) == count + 1

\* Variant of the upload that leaves the texture as it was.
texImage2DSkipped(textures, tex, data) == textures

\* gl.bindTexture(TEXTURE_2D, tex); gl.texImage2D(..., data): with no texture
\* bound (tex is null) the upload is a GL error and changes no texture.
texImage2D(textures, tex, data) ==
    IF tex = 0 THEN textures ELSE [textures EXCEPT ![tex].data = data]

---------------------------------------------------------------------------
(* The methods *)

\* Variants of setSVG: syncSize = FALSE leaves size and _viewOffset to be set
\* later, resetCenter = FALSE keeps _rawRotationCenter, checkFirst = FALSE
\* copies the renderer's measurements before the source is known to be valid.
setSVGVariant(svgData, rotationCenter, syncSize, resetCenter, checkFirst) ==
    /\ ~disposed
    /\ loads < MaxLoads
    /\ Len(pending) < MaxPending
    /\ loads' = loads + 1
    /\ IF svgData \in ValidSources
       THEN /\ _svgRenderer' = svgData
            /\ size' = IF syncSize THEN SvgSize(svgData) ELSE size
            /\ _viewOffset' = IF syncSize THEN SvgViewOffset(svgData) ELSE _viewOffset
            /\ _rawRotationCenter' = IF resetCenter THEN <<NaN, NaN>>
                                                   ELSE _rawRotationCenter
            /\ pending' = Append(pending, [kind |-> "load", scale |-> 1,
                                           src |-> svgData, rc |-> rotationCenter])
            /\ requestedCenter' = rotationCenter
            /\ last' = [NoOp EXCEPT !.op = "setSVG", !.preScale = _textureScale]
       ELSE /\ size' = IF checkFirst THEN size ELSE SvgSize(svgData)
            /\ UNCHANGED <<_svgRenderer, _viewOffset, _rawRotationCenter, pending,
                           requestedCenter>>
            /\ last' = [NoOp EXCEPT !.op = "setSVG", !.preScale = _textureScale,
                                    !.ok = FALSE]
    /\ UNCHANGED <<_texture, _textureScale, _maxTextureScale, _rotationCenter,
                   _silhouette, gl, disposed, events>>

setSVGSizeLater(svgData, rotationCenter) ==
    setSVGVariant(svgData, rotationCenter, FALSE, TRUE, TRUE)

setSVGKeepCenter(svgData, rotationCenter) ==
    setSVGVariant(svgData, rotationCenter, TRUE, FALSE, TRUE)

setSVGUnchecked(svgData, rotationCenter) ==
    setSVGVariant(svgData, rotationCenter, TRUE, TRUE, FALSE)

\* setSVG(svgData, rotationCenter), up to the point where it returns
setSVG(svgData, rotationCenter) ==
    /\ ~disposed
    /\ loads < MaxLoads
    /\ Len(pending) < MaxPending
    /\ loads' = loads + 1
    /\ IF svgData \in ValidSources
       THEN /\ _svgRenderer' = svgData
            /\ size' = SvgSize(svgData)
            /\ _viewOffset' = SvgViewOffset(svgData)
            /\ _rawRotationCenter' = <<NaN, NaN>>
            /\ pending' = Append(pending, [kind |-> "load", scale |-> 1,
                                           src |-> svgData, rc |-> rotationCenter])
            /\ requestedCenter' = rotationCenter
            /\ last' = [NoOp EXCEPT !.op = "setSVG", !.preScale = _textureScale]
       ELSE \* loadString throws
            /\ UNCHANGED <<_svgRenderer, size, _viewOffset, _rawRotationCenter, pending,
                           requestedCenter>>
            /\ last' = [NoOp EXCEPT !.op = "setSVG", !.preScale = _textureScale,
                                    !.ok = FALSE]
    /\ UNCHANGED <<_texture, _textureScale, _maxTextureScale, _rotationCenter,
                   _silhouette, gl, disposed, events>>

\* the callback setSVG passes to _draw(1, ...)
loadDone(i) ==
    /\ i \in 1..Len(pending)
    /\ pending[i].kind = "load"
    /\ LET task == pending[i]
           textureData == [src |-> task.src, scale |-> 1]
           rotationCenter == IF task.rc = Undefined
                             THEN calculateRotationCenter(size)
                             ELSE task.rc
           rot == setRotationCenterResult(rotationCenter[1], rotationCenter[2],
                      _rawRotationCenter, _viewOffset, _rotationCenter)
       IN /\ _textureScale' = 1
          /\ IF hasTexture(_texture)
             THEN /\ gl' = texImage2D(gl, _texture, textureData)
                  /\ _texture' = _texture
             ELSE /\ gl' = Append(gl, [alive |-> TRUE, data |-> textureData])
                  /\ _texture' = Len(gl) + 1
          /\ _silhouette' = textureData
          /\ _maxTextureScale' = maxTextureScaleOf(textureData).maxScale
          /\ _rawRotationCenter' = rot.raw
          /\ _rotationCenter' = rot.base
          /\ events' = emit(events)
          /\ pending' = SubSeq(pending, 1, i - 1) \o SubSeq(pending, i + 1, Len(pending))
          /\ last' = [NoOp EXCEPT !.op = "loadDone", !.taskScale = 1, !.preScale = _textureScale]
    /\ UNCHANGED <<size, _viewOffset, _svgRenderer, disposed, loads, requestedCenter>>

\* getTexture(scale)
getTexture(scale) ==
    LET newScale == getTextureNewScale(scale, _textureScale, _maxTextureScale)
    IN /\ ~disposed
       /\ IF _textureScale # newScale
          THEN /\ Len(pending) < MaxPending
               /\ _textureScale' = newScale
               /\ pending' = Append(pending, [kind |-> "upgrade", scale |-> newScale,
                                              src |-> _svgRenderer, rc |-> Undefined])
          ELSE UNCHANGED <<_textureScale, pending>>
       /\ last' = [NoOp EXCEPT !.op = "getTexture", !.scaleMax = scaleMaxOf(scale),
                               !.preScale = _textureScale, !.ret = _texture]
       /\ UNCHANGED <<_texture, _maxTextureScale, size, _viewOffset, _rawRotationCenter,
                      _rotationCenter, _silhouette, _svgRenderer, gl, disposed,
                      events, loads, requestedCenter>>

\* the callback getTexture passes to _draw(newScale, ...)
upgradeDone(i) ==
    /\ i \in 1..Len(pending)
    /\ pending[i].kind = "upgrade"
    /\ LET task == pending[i]
           textureData == [src |-> task.src, scale |-> task.scale]
       IN /\ IF upgradeIsCurrent(_textureScale, task.scale)
             THEN /\ gl' = texImage2D(gl, _texture, textureData)
                  /\ _silhouette' = textureData
             ELSE UNCHANGED <<gl, _silhouette>>
          /\ pending' = SubSeq(pending, 1, i - 1) \o SubSeq(pending, i + 1, Len(pending))
          /\ last' = [NoOp EXCEPT !.op = "upgradeDone", !.taskScale = task.scale, !.preScale = _textureScale]
    /\ UNCHANGED <<_texture, _textureScale, _maxTextureScale, size, _viewOffset,
                   _rawRotationCenter, _rotationCenter, _svgRenderer, disposed,
                   events, loads, requestedCenter>>

\* setRotationCenter(x, y)
setRotationCenter(x, y) ==
    LET rot == setRotationCenterResult(x, y, _rawRotationCenter, _viewOffset,
                                       _rotationCenter)
    IN /\ ~disposed
       /\ _rawRotationCenter' = rot.raw
       /\ _rotationCenter' = rot.base
       /\ last' = [NoOp EXCEPT !.op = "setRotationCenter", !.x = x, !.y = y,
                               !.preScale = _textureScale,
                               !.noop = ~rot.applied,
                               !.repeat = (/\ last.op = "setRotationCenter"
                                           /\ last.x = x
                                           /\ last.y = y)]
       /\ UNCHANGED <<_texture, _textureScale, _maxTextureScale, size, _viewOffset,
                      _silhouette, _svgRenderer, gl, pending, disposed, events, loads,
                      requestedCenter>>

\* dispose()
dispose ==
    /\ ~disposed
    /\ IF _texture # 0
       THEN /\ gl' = [gl EXCEPT ![_texture].alive = FALSE]
            /\ _texture' = 0
       ELSE UNCHANGED <<gl, _texture>>
    /\ disposed' = TRUE
    /\ last' = [NoOp EXCEPT !.op = "dispose", !.preScale = _textureScale]
    /\ UNCHANGED <<_textureScale, _maxTextureScale, size, _viewOffset,
                   _rawRotationCenter, _rotationCenter, _silhouette, _svgRenderer,
                   pending, events, loads, requestedCenter>>

Next ==
    \/ \E svgData \in Sources, rotationCenter \in RotationCenters :
          setSVG(svgData, rotationCenter)
    \/ \E i \in 1..MaxPending : loadDone(i)
    \/ \E scale \in Scales : getTexture(scale)
    \/ \E i \in 1..MaxPending : upgradeDone(i)
    \/ \E c \in Centers : setRotationCenter(c[1], c[2])
    \/ dispose

Spec == Init /\ [][Next]_vars

---------------------------------------------------------------------------
(* Properties *)

\* the bitmap held by the texture this._texture names
TextureContents == IF _texture = 0 THEN NoBitmap ELSE gl[_texture].data

Pow2s == {2 ^ i : i \in 0..MaxIter}

\* C1 as stated: a completion callback (of setSVG's scale-1 task or of an
\* upgrade task) that finds _textureScale different from its task's scale
\* leaves the texture contents and the silhouette as they were.
C1_AnyStaleCompletionDiscarded ==
    [][(last'.op \in {"loadDone", "upgradeDone"} /\ _textureScale # last'.taskScale)
         => (TextureContents' = TextureContents /\ _silhouette' = _silhouette)]_vars

\* C1 amended: an upgrade completion callback (started by getTexture) that
\* finds _textureScale different from its task's scale leaves the texture
\* handle, every texture's contents and the silhouette as they were.
C1_StaleUpgradeDiscarded ==
    [][(last'.op = "upgradeDone" /\ _textureScale # last'.taskScale)
         => (_texture' = _texture /\ gl' = gl /\ _silhouette' = _silhouette)]_vars

C1_Witness ==
    /\ last.op = "upgradeDone"
    /\ last.preScale # last.taskScale
    /\ _texture # 0

\* C2 as stated: _textureScale <= _maxTextureScale in every reachable state,
\* from construction on.
C2_ScaleNeverAboveMax == _textureScale <= _maxTextureScale

\* C2 amended: once a load completion has run, _textureScale <=
\* _maxTextureScale; until then _textureScale = 1 and _maxTextureScale = 0.
C2_ScaleNeverAboveMaxOnceLoaded ==
    IF events > 0
    THEN _textureScale <= _maxTextureScale
    ELSE _textureScale = 1 /\ _maxTextureScale = 0

C2_Witness ==
    /\ events > 0
    /\ last.op = "getTexture"
    /\ last.scaleMax > 100 * _maxTextureScale
    /\ _textureScale = _maxTextureScale
    /\ _textureScale > last.preScale

\* C3: getTexture never lowers _textureScale, whatever scale it is given, and
\* an upgrade completion does not change _textureScale.
C3_NoDowngrade ==
    [][/\ last'.op = "getTexture" => _textureScale' >= _textureScale
       /\ last'.op = "upgradeDone" => _textureScale' = _textureScale]_vars

C3_Witness ==
    /\ last.op = "getTexture"
    /\ last.preScale = 4
    /\ last.scaleMax = 50
    /\ _textureScale = 4

\* C4: after dispose() no GL texture is allocated for the skin: the handle is
\* null and every texture created for it has been deleted.
C4_NoTextureAfterDispose ==
    disposed => (_texture = 0 /\ \A t \in 1..Len(gl) : ~gl[t].alive)

\* C5: a getTexture call whose scaleMax / 100 is below 1.5 times
\* _textureScale changes neither _textureScale nor the pending rasterizations
\* nor the texture nor the silhouette.
C5_NoUpgradeBelowThreshold ==
    [][(last'.op = "getTexture" /\ 2 * last'.scaleMax < 3 * 100 * _textureScale)
         => UNCHANGED <<_textureScale, pending, _texture, gl, _silhouette>>]_vars

C5_Witness ==
    /\ last.op = "getTexture"
    /\ last.scaleMax = 299
    /\ last.preScale = 2
    /\ _maxTextureScale = 4

\* the largest power of two k >= 2 with maxDimension * k <=
\* MAX_TEXTURE_DIMENSION, or 1 when there is none
LargestFactor(maxDimension) ==
    LET ks == {k \in Pow2s : k >= 2 /\ maxDimension * k <= MAX_TEXTURE_DIMENSION}
    IN IF ks = {} THEN 1 ELSE CHOOSE k \in ks : \A j \in ks : j <= k

\* C6: a load completion with a W x H bitmap, max(W, H) >= 1, leaves
\* _maxTextureScale at the largest power of two k >= 2 with max(W, H) * k <=
\* MAX_TEXTURE_DIMENSION, or at 1 when there is none, and its loop ends
\* before the cut-off.
C6_MaxTextureScale ==
    last.op = "loadDone" =>
        LET maxDimension == Max(CanvasWidth(_silhouette), CanvasHeight(_silhouette))
        IN maxDimension >= 1 =>
             /\ _maxTextureScale = LargestFactor(maxDimension)
             /\ maxTextureScaleOf(_silhouette).iters < MaxIter

C6_Witness ==
    /\ last.op = "loadDone"
    /\ Max(CanvasWidth(_silhouette), CanvasHeight(_silhouette)) = 1024
    /\ _maxTextureScale = 2

\* C7: _textureScale is a power of two in every state; it is 1 after a load
\* completion, and any other change of it is a getTexture call multiplying it
\* by a power of two.
C7_ScalePowerOfTwo ==
    /\ [](_textureScale \in Pow2s)
    /\ [][/\ last'.op = "loadDone" => _textureScale' = 1
          /\ _textureScale' # _textureScale =>
                \/ last'.op = "loadDone"
                \/ /\ last'.op = "getTexture"
                   /\ \E k \in Pow2s : _textureScale' = k * _textureScale]_vars

C7_Witness ==
    /\ last.op = "getTexture"
    /\ last.preScale = 1
    /\ _textureScale = 4

\* C8: in the state in which a successful setSVG returns, size and
\* _viewOffset are the renderer's measurements of the new source,
\* _rawRotationCenter is [NaN, NaN], and the scale-1 rasterization it asked
\* for is still pending.
C8_SizeSynchronous ==
    (last.op = "setSVG" /\ last.ok) =>
        /\ size = SvgSize(_svgRenderer)
        /\ _viewOffset = SvgViewOffset(_svgRenderer)
        /\ _rawRotationCenter = <<NaN, NaN>>
        /\ Len(pending) > 0
        /\ pending[Len(pending)].kind = "load"
        /\ pending[Len(pending)].src = _svgRenderer

C8_Witness ==
    /\ last.op = "setSVG"
    /\ last.ok
    /\ events > 0
    /\ TextureContents.src # _svgRenderer
    /\ size = SvgSize("B")

\* C9: a setSVG call whose source the renderer rejects throws and changes
\* none of size, _viewOffset, _rawRotationCenter, _textureScale,
\* _maxTextureScale, the texture, the silhouette; it schedules no
\* rasterization and emits no event.
C9_FailedLoadChangesNothing ==
    [][(last'.op = "setSVG" /\ ~last'.ok)
         => UNCHANGED <<size, _viewOffset, _rawRotationCenter, _rotationCenter,
                        _textureScale, _maxTextureScale, _texture, gl,
                        _silhouette, pending, events>>]_vars

C9_Witness ==
    /\ last.op = "setSVG"
    /\ ~last.ok
    /\ events > 0
    /\ size # <<0, 0>>

\* C10: when setRotationCenter(x, y) returns, whether it stored the center or
\* found it unchanged, the base skin's rotation center is
\* (x - _viewOffset[0], y - _viewOffset[1]).
C10_RotationCenterApplied ==
    last.op = "setRotationCenter" =>
        _rotationCenter = <<last.x - _viewOffset[1], last.y - _viewOffset[2]>>

C10_Witness ==
    /\ last.op = "setRotationCenter"
    /\ last.noop
    /\ _viewOffset # <<0, 0>>
    /\ loads > 1

\* C11 as stated: in every reachable state the base skin's rotation center
\* is _rawRotationCenter minus _viewOffset, component by component.
C11_CentersAlwaysConsistent ==
    _rotationCenter = <<Sub(_rawRotationCenter[1], _viewOffset[1]),
                        Sub(_rawRotationCenter[2], _viewOffset[2])>>

\* C11 amended: whenever _rawRotationCenter is resolved (not [NaN, NaN]) the
\* base skin's rotation center is _rawRotationCenter minus _viewOffset; a
\* setSVG call leaves _rawRotationCenter unresolved and the base skin's
\* rotation center as it was.
C11_CentersConsistentWhenResolved ==
    /\ [](_rawRotationCenter # <<NaN, NaN>> =>
            /\ _rawRotationCenter[1] # NaN
            /\ _rawRotationCenter[2] # NaN
            /\ _rotationCenter = <<_rawRotationCenter[1] - _viewOffset[1],
                                   _rawRotationCenter[2] - _viewOffset[2]>>)
    /\ [][(last'.op = "setSVG" /\ last'.ok) =>
            /\ _rawRotationCenter' = <<NaN, NaN>>
            /\ _rotationCenter' = _rotationCenter]_vars

C11_Witness ==
    /\ last.op = "loadDone"
    /\ _viewOffset = <<4, 6>>
    /\ _rawRotationCenter = <<10, 20>>
    /\ _rotationCenter = <<6, 14>>

\* C12: a setRotationCenter(x, y) call that directly follows a
\* setRotationCenter call with the same (x, y) does not call the base skin's
\* setRotationCenter and leaves the skin as the first call left it.
C12_SetRotationCenterIdempotent ==
    [][(/\ last'.op = "setRotationCenter"
        /\ last.op = "setRotationCenter"
        /\ last'.x = last.x
        /\ last'.y = last.y)
         => /\ last'.noop
            /\ UNCHANGED <<_texture, _textureScale, _maxTextureScale, size,
                           _viewOffset, _rawRotationCenter, _rotationCenter,
                           _silhouette, _svgRenderer, gl, pending, disposed,
                           events, loads, requestedCenter>>]_vars

C12_Witness ==
    /\ last.op = "setRotationCenter"
    /\ last.repeat
    /\ last.noop
    /\ _rawRotationCenter = <<last.x, last.y>>

\* C13: every getTexture call returns this._texture as it is, changes neither
\* the texture nor the silhouette, and the texture it returns exists and
\* holds the bitmap of a completed rasterization, also before the first load
\* has completed.
C13_GetTextureReturnsValidTexture ==
    [][last'.op = "getTexture" =>
         /\ UNCHANGED <<_texture, gl, _silhouette>>
         /\ last'.ret = _texture
         /\ _texture # 0
         /\ gl[_texture].alive
         /\ gl[_texture].data # NoBitmap]_vars

\* C14: when a load has completed, the skin is not disposed and no
\* rasterization is pending, the texture and the silhouette hold a bitmap
\* rasterized at _textureScale.
C14_TextureAtCurrentScale ==
    (events > 0 /\ ~disposed /\ pending = <<>>) =>
        /\ TextureContents.scale = _textureScale
        /\ _silhouette.scale = _textureScale

C14_Witness ==
    /\ events > 0
    /\ ~disposed
    /\ pending = <<>>
    /\ _textureScale = 4
    /\ last.op = "upgradeDone"
    /\ last.taskScale = 2

\* largest side of the scale-1 bitmap of a source
LargestSide(src) == Max(SvgSize(src)[1], SvgSize(src)[2])

\* C15: every rasterization getTexture asks for, and every bitmap an upgrade
\* completion uploads, has its largest side within MAX_TEXTURE_DIMENSION,
\* also when getTexture is called between a setSVG and its completion.
C15_UpgradeWithinMaxDimension ==
    [][/\ (last'.op = "getTexture" /\ pending' # pending) =>
             LargestSide(_svgRenderer) * _textureScale' <= MAX_TEXTURE_DIMENSION
       /\ (last'.op = "upgradeDone" /\ gl' # gl) =>
             Max(CanvasWidth(TextureContents'), CanvasHeight(TextureContents'))
                <= MAX_TEXTURE_DIMENSION]_vars

\* C16: getTexture in a state with c = _textureScale, m = _maxTextureScale and
\* r = min(scaleMax / 100, m) leaves _textureScale = c * 2^j for the least
\* j >= 0 with c * 2^j >= m or r < 1.5 * c * 2^j, and schedules exactly one
\* rasterization at that scale when j > 0 and none when j = 0.
C16_HysteresisSearch ==
    [][last'.op = "getTexture" =>
         LET c == _textureScale
             m == _maxTextureScale
             r100 == Min(last'.scaleMax, 100 * m)
             js == {j \in 0..MaxIter :
                      c * (2 ^ j) >= m \/ r100 < 150 * c * (2 ^ j)}
             j == CHOOSE k \in js : \A l \in js : k <= l
         IN /\ js # {}
            /\ _textureScale' = c * (2 ^ j)
            /\ IF j > 0
               THEN /\ Len(pending') = Len(pending) + 1
                    /\ SubSeq(pending', 1, Len(pending)) = pending
                    /\ pending'[Len(pending')].kind = "upgrade"
                    /\ pending'[Len(pending')].scale = c * (2 ^ j)
               ELSE pending' = pending]_vars

C16_Witness ==
    /\ last.op = "getTexture"
    /\ last.scaleMax = 150
    /\ last.preScale = 1
    /\ _textureScale = 2
    /\ _maxTextureScale = 4

\* C17: before disposal at most one texture is created: none until the first
\* load completion, which creates it, and every later completion keeps
\* this._texture and creates no texture.
C17_SingleTexture ==
    /\ [](~disposed =>
            IF events = 0
            THEN _texture = 0 /\ Len(gl) = 0
            ELSE _texture = 1 /\ Len(gl) = 1 /\ gl[1].alive)
    /\ [][(~disposed /\ _texture # 0 /\ last'.op \in {"loadDone", "upgradeDone"})
            => (_texture' = _texture /\ Len(gl') = Len(gl))]_vars

C17_Witness ==
    /\ ~disposed
    /\ last.op = "loadDone"
    /\ events = 2
    /\ Len(gl) = 1
    /\ TextureContents.src = "B"

\* C18: a load completion callback emits WasAltered exactly once, with the
\* texture uploaded, _maxTextureScale computed and the rotation center set;
\* getTexture and upgrade completions, stale or not, emit nothing.
C18_OneEventPerLoadCompletion ==
    [][/\ last'.op = "loadDone" =>
             /\ events' = events + 1
             /\ TextureContents'.scale = 1
             /\ _silhouette' = TextureContents'
             /\ _maxTextureScale' =
                   LargestFactor(Max(CanvasWidth(_silhouette'), CanvasHeight(_silhouette')))
             /\ _rawRotationCenter' # <<NaN, NaN>>
       /\ last'.op \in {"getTexture", "upgradeDone"} => events' = events]_vars

C18_Witness ==
    /\ last.op = "loadDone"
    /\ events = 3
    /\ loads = 3

\* C19: before disposal the bitmap last given to the silhouette is the bitmap
\* the texture holds (none for both before the first load completion), and
\* no step changes one without the other.
C19_SilhouetteMatchesTexture ==
    /\ [](~disposed => _silhouette = TextureContents)
    /\ [][~disposed' =>
            ((_silhouette' # _silhouette) <=> (TextureContents' # TextureContents))]_vars

C19_Witness ==
    /\ ~disposed
    /\ last.op = "upgradeDone"
    /\ last.taskScale = last.preScale
    /\ _silhouette = [src |-> "A", scale |-> 2]

\* C20: after two setSVG calls, when the completion callbacks of both have
\* run, in either order, the texture, the silhouette and the rotation center
\* are those of the second call.
C20_LatestLoadWins ==
    (last.op = "loadDone" /\ loads = 2 /\ events = 2) =>
        LET center == IF requestedCenter = Undefined
                      THEN calculateRotationCenter(size)
                      ELSE requestedCenter
        IN /\ TextureContents = [src |-> _svgRenderer, scale |-> 1]
           /\ _silhouette = [src |-> _svgRenderer, scale |-> 1]
           /\ _rawRotationCenter = center
           /\ _rotationCenter = <<center[1] - _viewOffset[1],
                                  center[2] - _viewOffset[2]>>

====
